---- MODULE Spec2Model ----
(***************************************************************************)
(* Model of the export (export_docx.py) and import (import_docx.py)       *)
(* transforms.  Python str values are TLA+ strings; every transform is    *)
(* computed character by character as the code computes it.               *)
(***************************************************************************)
EXTENDS Integers, Sequences, FiniteSets, TLC

(***************************************************************************)
(* Python str primitives (1-based positions).                             *)
(***************************************************************************)
Char(s, i) == IF i >= 1 /\ i <= Len(s) THEN SubSeq(s, i, i) ELSE ""

From(s, i) == IF i > Len(s) THEN "" ELSE SubSeq(s, i, Len(s))

MatchAt(s, p, i) ==
  /\ i >= 1
  /\ i + Len(p) - 1 <= Len(s)
  /\ SubSeq(s, i, i + Len(p) - 1) = p

startswith(s, p) == MatchAt(s, p, 1)

endswith(s, p) == MatchAt(s, p, Len(s) - Len(p) + 1)

\* 'p in s'
contains(s, p) == \E i \in 1..(Len(s) - Len(p) + 1) : MatchAt(s, p, i)

\* the largest member of a non-empty set of integers
MaxOf(S) == CHOOSE k \in S : \A j \in S : j <= k

\* the least member of a non-empty set of integers
MinOf(S) == CHOOSE k \in S : \A j \in S : k <= j

\* s.find(p, i - 1) + 1: the first occurrence of p at or after position i;
\* 0 when absent
find(s, p, i) ==
  LET hits == {k \in i..(Len(s) - Len(p) + 1) : MatchAt(s, p, k)}
  IN IF hits = {} THEN 0 ELSE MinOf(hits)

\* s.rfind(p) + 1; 0 when absent
rfind(s, p) ==
  LET hits == {k \in 1..(Len(s) - Len(p) + 1) : MatchAt(s, p, k)}
  IN IF hits = {} THEN 0 ELSE MaxOf(hits)

\* s.replace(old, new): leftmost non-overlapping occurrences
RECURSIVE replaceFrom(_, _, _, _)
replaceFrom(s, old, new, i) ==
  LET k == find(s, old, i)
  IN IF k = 0 THEN From(s, i)
     ELSE SubSeq(s, i, k - 1) \o new \o replaceFrom(s, old, new, k + Len(old))

replace(s, old, new) == replaceFrom(s, old, new, 1)

\* the characters of a string, as a set
CharsOf(s) == {SubSeq(s, i, i) : i \in 1..Len(s)}

\* \s of the regular expressions, and what str.strip() removes
WS == {" ", "\t", "\n"}

LowerAlpha == "abcdefghijklmnopqrstuvwxyz"

UpperAlpha == "ABCDEFGHIJKLMNOPQRSTUVWXYZ"

\* \w of the regular expressions
WordChars == CharsOf(LowerAlpha) \cup CharsOf(UpperAlpha) \cup CharsOf("0123456789_")

\* [\w\.-] of the regular expressions
AnchorChars == WordChars \cup {".", "-"}

\* first position >= i whose character is not in S (Len(s) + 1 when none)
RECURSIVE SkipIn(_, _, _)
SkipIn(s, i, S) ==
  IF i <= Len(s) /\ Char(s, i) \in S THEN SkipIn(s, i + 1, S) ELSE i

\* first position >= i whose character is in S (Len(s) + 1 when none)
RECURSIVE SkipNot(_, _, _)
SkipNot(s, i, S) ==
  IF i <= Len(s) /\ Char(s, i) \notin S THEN SkipNot(s, i + 1, S) ELSE i

\* last position <= i whose character is not in S (0 when none)
RECURSIVE SkipInBack(_, _, _)
SkipInBack(s, i, S) ==
  IF i >= 1 /\ Char(s, i) \in S THEN SkipInBack(s, i - 1, S) ELSE i

lstripOf(s, S) == From(s, SkipIn(s, 1, S))

rstripOf(s, S) == SubSeq(s, 1, SkipInBack(s, Len(s), S))

lstrip(s) == lstripOf(s, WS)

rstrip(s) == rstripOf(s, WS)

strip(s) == lstrip(rstrip(s))

\* ' ' * n
RECURSIVE Spaces(_)
Spaces(n) == IF n <= 0 THEN "" ELSE " " \o Spaces(n - 1)

\* str.lower()
RECURSIVE lowerFrom(_, _)
lowerFrom(s, i) ==
  IF i > Len(s) THEN ""
  ELSE LET c == Char(s, i)
           k == find(UpperAlpha, c, 1)
       IN (IF k > 0 THEN Char(LowerAlpha, k) ELSE c) \o lowerFrom(s, i + 1)

lower(s) == lowerFrom(s, 1)

\* content.split('\n')
RECURSIVE splitFrom(_, _)
splitFrom(s, i) ==
  LET k == find(s, "\n", i)
  IN IF k = 0 THEN <<From(s, i)>>
     ELSE <<SubSeq(s, i, k - 1)>> \o splitFrom(s, k + 1)

split(s) == splitFrom(s, 1)

\* '\n'.join(lines)
RECURSIVE join(_)
join(lines) ==
  IF Len(lines) = 0 THEN ""
  ELSE IF Len(lines) = 1 THEN lines[1]
  ELSE lines[1] \o "\n" \o join(Tail(lines))

\* ''.join(parts)
RECURSIVE concat(_)
concat(parts) == IF Len(parts) = 0 THEN "" ELSE parts[1] \o concat(Tail(parts))

(***************************************************************************)
(* Unit Registry.                                                         *)
(***************************************************************************)
FILES == <<"introduction.md", "validity.md", "democratization.md",
           "responsibility.md", "conclusion.md", "references.md">>

\* every name with the unit extension taken for a registered unit
InFILES_any_md(name) == endswith(name, ".md")

InFILES(name) == \E k \in 1..Len(FILES) : FILES[k] = name

(***************************************************************************)
(* Link codec, export side: process_links.                                *)
(***************************************************************************)
\* \[([^\]]+)\]\(([^)]+)\)(\s*\{ *#[^}]+\})?  tried at position i
ExportLinkAt(s, i) ==
  LET t1 == SkipNot(s, i + 1, {"]"})
      u0 == t1 + 2
      u1 == SkipNot(s, u0, {")"})
      a0 == u1 + 1
      a1 == SkipIn(s, a0, WS)
      a2 == SkipIn(s, a1 + 1, {" "})
      a3 == SkipNot(s, a2 + 1, {"}"})
      ok == /\ Char(s, i) = "["
            /\ t1 > i + 1
            /\ MatchAt(s, "](", t1)
            /\ u1 > u0
            /\ u1 <= Len(s)
      hasAttr == /\ Char(s, a1) = "{"
                 /\ Char(s, a2) = "#"
                 /\ a3 > a2 + 1
                 /\ a3 <= Len(s)
  IN IF ~ok THEN [ok |-> FALSE]
     ELSE [ok |-> TRUE,
           text |-> SubSeq(s, i + 1, t1 - 1),
           url |-> SubSeq(s, u0, u1 - 1),
           attr |-> IF hasAttr THEN SubSeq(s, a0, a3) ELSE "",
           end |-> IF hasAttr THEN a3 ELSE u1]

\* process_links.replace_link; attr = "" stands for None
export_replace_link(m, whole, current_file) ==
  LET text == IF m.attr # "" THEN m.text \o " " \o strip(m.attr) ELSE m.text
      url == m.url
      h == find(url, "#", 1)
      filename == IF h = 0 THEN url ELSE SubSeq(url, 1, h - 1)
      rest == IF h = 0 THEN "" ELSE From(url, h + 1)
      h2 == find(rest, "#", 1)
      anchor == IF h2 = 0 THEN rest ELSE SubSeq(rest, 1, h2 - 1)
  IN IF contains(url, ".md") /\ ~startswith(url, "http") /\ InFILES(filename)
     THEN IF filename = current_file
          THEN IF anchor # ""
               THEN "[" \o text \o "](#" \o anchor \o ")"
               ELSE "[" \o text \o "](#" \o lower(replace(filename, ".", "-")) \o ")"
          ELSE IF anchor # ""
               THEN "[" \o text \o "](#" \o replace(filename, ".", "_") \o "__" \o anchor \o ")"
               ELSE "[" \o text \o "](#" \o replace(filename, ".", "_") \o ")"
     ELSE IF m.attr # "" THEN "[" \o text \o "](" \o url \o ")"
     ELSE whole

RECURSIVE process_links_from(_, _, _)
process_links_from(s, i, current_file) ==
  LET k == find(s, "[", i)
      m == ExportLinkAt(s, k)
  IN IF k = 0 THEN From(s, i)
     ELSE IF m.ok
     THEN SubSeq(s, i, k - 1)
            \o export_replace_link(m, SubSeq(s, k, m.end), current_file)
            \o process_links_from(s, m.end + 1, current_file)
     ELSE SubSeq(s, i, k) \o process_links_from(s, k + 1, current_file)

process_links(content, current_file) == process_links_from(content, 1, current_file)

(***************************************************************************)
(* Inline control codec, export side: process_checkboxes.                 *)
(***************************************************************************)
\* <input[^>]+KEY"(PREFIX[^"]+)"[^>]*>  tried at position i, where keyStart
\* is the text  id="cb-  or  name="pledge_  and prefixLen the length of the
\* prefix inside the quotes.  [^>]+ is greedy: the last place where the rest
\* matches wins.
ControlAt(s, i, keyStart, prefixLen) ==
  LET g == SkipNot(s, i + 6, {">"})
      QuoteEnd(k) == SkipNot(s, k + Len(keyStart), {"\""})
      TagEnd(k) == SkipNot(s, QuoteEnd(k) + 1, {">"})
      Fits(k) == /\ MatchAt(s, keyStart, k)
                 /\ QuoteEnd(k) > k + Len(keyStart)
                 /\ QuoteEnd(k) <= Len(s)
                 /\ TagEnd(k) <= Len(s)
      ks == {k \in (i + 7)..(g - 1) : Fits(k)}
  IN IF ~MatchAt(s, "<input", i) \/ ks = {} THEN [ok |-> FALSE]
     ELSE LET k == MaxOf(ks)
          IN [ok |-> TRUE,
              key |-> SubSeq(s, k + Len(keyStart) - prefixLen, QuoteEnd(k) - 1),
              end |-> TagEnd(k)]

\* re.sub(<the pattern above>, r'[\1]', content)
RECURSIVE sub_control(_, _, _, _)
sub_control(s, i, keyStart, prefixLen) ==
  LET k == find(s, "<input", i)
      m == ControlAt(s, k, keyStart, prefixLen)
  IN IF k = 0 THEN From(s, i)
     ELSE IF m.ok
     THEN SubSeq(s, i, k - 1) \o "[" \o m.key \o "]"
            \o sub_control(s, m.end + 1, keyStart, prefixLen)
     ELSE SubSeq(s, i, k) \o sub_control(s, k + 1, keyStart, prefixLen)

\* only the identity-keyed substitution, the name-keyed one left out
process_checkboxes_id_only(content) == sub_control(content, 1, "id=\"cb-", 3)

process_checkboxes(content) ==
  sub_control(sub_control(content, 1, "id=\"cb-", 3), 1, "name=\"pledge_", 7)

escape_html(content) == replace(replace(content, "<", "&lt;"), ">", "&gt;")

(***************************************************************************)
(* Link codec, import side: restore_links.                                *)
(***************************************************************************)
\* \[([^\]]+)\]\(#([\w\.-]+)\)  tried at position i
ImportLinkAt(s, i) ==
  LET t1 == SkipNot(s, i + 1, {"]"})
      a0 == t1 + 3
      a1 == SkipIn(s, a0, AnchorChars)
      ok == /\ Char(s, i) = "["
            /\ t1 > i + 1
            /\ MatchAt(s, "](#", t1)
            /\ a1 > a0
            /\ Char(s, a1) = ")"
  IN IF ~ok THEN [ok |-> FALSE]
     ELSE [ok |-> TRUE,
           text |-> SubSeq(s, i + 1, t1 - 1),
           anchor |-> SubSeq(s, a0, a1 - 1),
           end |-> a1]

\* restore_links.replace_link: the first registered unit, in registry order,
\* whose encoded name is the anchor or a prefix of it followed by "__"
import_replace_link(m, whole, current_file) ==
  LET safe(k) == replace(FILES[k], ".", "_")
      hits == {k \in 1..Len(FILES) :
                 m.anchor = safe(k) \/ startswith(m.anchor, safe(k) \o "__")}
  IN IF hits = {} THEN whole
     ELSE LET k == MinOf(hits)
              target_file == FILES[k]
              real_anchor == IF m.anchor = safe(k) THEN ""
                             ELSE From(m.anchor, Len(safe(k)) + 3)
          IN IF target_file = current_file
             THEN IF real_anchor # ""
                  THEN "[" \o m.text \o "](#" \o real_anchor \o ")"
                  ELSE "[" \o m.text \o "](#)"
             ELSE IF real_anchor # ""
                  THEN "[" \o m.text \o "](" \o target_file \o "#" \o real_anchor \o ")"
                  ELSE "[" \o m.text \o "](" \o target_file \o ")"

RECURSIVE restore_links_line(_, _, _)
restore_links_line(s, i, current_file) ==
  LET k == find(s, "[", i)
      m == ImportLinkAt(s, k)
  IN IF k = 0 THEN From(s, i)
     ELSE IF m.ok
     THEN SubSeq(s, i, k - 1)
            \o import_replace_link(m, SubSeq(s, k, m.end), current_file)
            \o restore_links_line(s, m.end + 1, current_file)
     ELSE SubSeq(s, i, k) \o restore_links_line(s, k + 1, current_file)

restore_links(content_lines, current_file) ==
  [k \in 1..Len(content_lines) |-> restore_links_line(content_lines[k], 1, current_file)]

(***************************************************************************)
(* Attribute-annotation codec, import side: restore_attributes.           *)
(***************************************************************************)
\* \[(.*?) \{ *(#[^}]+) *\}\]\(([^)]+)\)  tried at position i; (.*?) is lazy:
\* the shortest text after which the rest matches wins
AttrLinkAt(s, i) ==
  LET B0(j) == SkipIn(s, j + 2, {" "})
      B1(j) == SkipNot(s, B0(j) + 1, {"}"})
      U0(j) == B1(j) + 3
      U1(j) == SkipNot(s, U0(j), {")"})
      Fits(j) == /\ MatchAt(s, " {", j)
                 /\ Char(s, B0(j)) = "#"
                 /\ B1(j) > B0(j) + 1
                 /\ MatchAt(s, "}](", B1(j))
                 /\ U1(j) > U0(j)
                 /\ U1(j) <= Len(s)
      js == {j \in (i + 1)..Len(s) : Fits(j)}
  IN IF Char(s, i) # "[" \/ js = {} THEN [ok |-> FALSE]
     ELSE LET j == MinOf(js)
          IN [ok |-> TRUE,
              text |-> SubSeq(s, i + 1, j - 1),
              attr |-> strip(SubSeq(s, B0(j), B1(j) - 1)),
              url |-> SubSeq(s, U0(j), U1(j) - 1),
              end |-> U1(j)]

RECURSIVE restore_attributes_line(_, _)
restore_attributes_line(s, i) ==
  LET k == find(s, "[", i)
      m == AttrLinkAt(s, k)
  IN IF k = 0 THEN From(s, i)
     ELSE IF m.ok
     THEN SubSeq(s, i, k - 1)
            \o "[" \o m.text \o "](" \o m.url \o "){ " \o m.attr \o " }"
            \o restore_attributes_line(s, m.end + 1)
     ELSE SubSeq(s, i, k) \o restore_attributes_line(s, k + 1)

restore_attributes(lines) ==
  [k \in 1..Len(lines) |-> restore_attributes_line(lines[k], 1)]

(***************************************************************************)
(* Inline control codec, import side: restore_checkboxes.                 *)
(***************************************************************************)
\* the element restore_checkboxes writes for an identity-keyed control
CanonicalCb(cb_id) ==
  "<input type='checkbox' checked id=\"" \o cb_id
    \o "\" class=\"cb-sa\" onchange=\"toggleCheckboxes(event)\"/>"

\* the element restore_checkboxes writes for a name-keyed control
CanonicalPledge(pledge_name) ==
  "<input type='checkbox' checked name=\"" \o pledge_name
    \o "\" class=\"data-input\" />"

\* \[(cb-[^\]]+)\]  or  \[(pledge_[^\]]+)\]  tried at position i
TokenAt(s, i, open) ==
  LET e == SkipNot(s, i + Len(open), {"]"})
  IN IF MatchAt(s, open, i) /\ e > i + Len(open) /\ e <= Len(s)
     THEN [ok |-> TRUE, key |-> SubSeq(s, i + 1, e - 1), end |-> e]
     ELSE [ok |-> FALSE]

RECURSIVE replace_cb(_, _)
replace_cb(s, i) ==
  LET k == find(s, "[cb-", i)
      m == TokenAt(s, k, "[cb-")
  IN IF k = 0 THEN From(s, i)
     ELSE IF m.ok
     THEN SubSeq(s, i, k - 1) \o CanonicalCb(m.key) \o replace_cb(s, m.end + 1)
     ELSE SubSeq(s, i, k) \o replace_cb(s, k + 1)

RECURSIVE replace_pledge(_, _)
replace_pledge(s, i) ==
  LET k == find(s, "[pledge_", i)
      m == TokenAt(s, k, "[pledge_")
  IN IF k = 0 THEN From(s, i)
     ELSE IF m.ok
     THEN SubSeq(s, i, k - 1) \o CanonicalPledge(m.key) \o replace_pledge(s, m.end + 1)
     ELSE SubSeq(s, i, k) \o replace_pledge(s, k + 1)

restore_checkboxes(lines) ==
  [k \in 1..Len(lines) |-> replace_pledge(replace_cb(lines[k], 1), 1)]

(***************************************************************************)
(* Block markers, as both engines recognise them.                         *)
(***************************************************************************)
\* position of the sigil of a line that opens with optional whitespace and
\* "///"; 0 when the line does not open so
SigilAt(line) ==
  LET p == SkipIn(line, 1, WS)
  IN IF MatchAt(line, "///", p) THEN p ELSE 0

\* block_start_pattern of process_content: ^\s*///\s+(\w+)(.*)
\* (unindent_blocks uses the same pattern without the groups)
block_start_pattern(line) ==
  LET p == SigilAt(line)
      q == SkipIn(line, p + 3, WS)
      w == SkipIn(line, q, WordChars)
  IN IF p > 0 /\ q > p + 3 /\ w > q
     THEN [ok |-> TRUE, block_type |-> SubSeq(line, q, w - 1), rest_of_tag |-> From(line, w)]
     ELSE [ok |-> FALSE]

\* block_end_pattern: ^\s*///\s*$
block_end_pattern(line) ==
  LET p == SigilAt(line)
  IN p > 0 /\ SkipIn(line, p + 3, WS) = Len(line) + 1

(***************************************************************************)
(* Block Flattening Engine: unindent_blocks, one loop iteration.          *)
(***************************************************************************)
\* the per-nesting-level indent width the flattening removes
IndentWidth == 4

\* the prefixes of the inline controls alone, the metadata keys left out
IsolatedPrefix_controls_only(stripped_line) ==
  \/ startswith(stripped_line, "<input")
  \/ startswith(stripped_line, "[cb-")
  \/ startswith(stripped_line, "[pledge_")

\* the prefixes after which unindent_blocks forces a separator line
IsolatedPrefix(stripped_line) ==
  \/ startswith(stripped_line, "type:")
  \/ startswith(stripped_line, "open:")
  \/ startswith(stripped_line, "<input")
  \/ startswith(stripped_line, "[cb-")
  \/ startswith(stripped_line, "[pledge_")

\* stack_depth after the line, with the "Safety" clamp left out
unindent_depth_unclamped(stack_depth, line) ==
  IF block_start_pattern(line).ok THEN stack_depth + 1
  ELSE IF block_end_pattern(line) THEN stack_depth - 1
  ELSE stack_depth

\* stack_depth after the line
unindent_depth(stack_depth, line) ==
  IF block_start_pattern(line).ok THEN stack_depth + 1
  ELSE IF block_end_pattern(line)
       THEN IF stack_depth - 1 < 0 THEN 0 ELSE stack_depth - 1
  ELSE stack_depth

\* the lines the iteration appends to new_lines
unindent_emit(stack_depth, line) ==
  LET current_indent == SkipIn(line, 1, {" "}) - 1
      indent_to_remove == stack_depth * IndentWidth
      processed_line == IF current_indent >= indent_to_remove
                        THEN From(line, indent_to_remove + 1)
                        ELSE IF strip(line) = "" THEN "" ELSE lstrip(line)
  IN IF block_start_pattern(line).ok THEN <<strip(line), "">>
     ELSE IF block_end_pattern(line) THEN <<strip(line), "">>
     ELSE IF IsolatedPrefix(strip(processed_line)) THEN <<processed_line, "">>
     ELSE <<processed_line>>

(***************************************************************************)
(* Block Reconstruction Engine: clean_buffer.                             *)
(***************************************************************************)
IsBlank(line) == strip(line) = ""

\* find_next_non_blank: the first index >= start_idx of a non-blank line;
\* 0 when there is none
RECURSIVE find_next_non_blank(_, _)
find_next_non_blank(lines, start_idx) ==
  IF start_idx > Len(lines) THEN 0
  ELSE IF ~IsBlank(lines[start_idx]) THEN start_idx
  ELSE find_next_non_blank(lines, start_idx + 1)

\* the while loop of clean_buffer from index i on
RECURSIVE clean_from(_, _)
clean_from(lines, i) ==
  IF i > Len(lines) THEN <<>>
  ELSE
    LET line == lines[i]
        next_idx == find_next_non_blank(lines, i + 1)
        next_line == lines[next_idx]
        is_input == contains(line, "<input") \/ contains(line, "[cb-")
                      \/ contains(line, "[pledge_")
    IN IF next_idx # 0 /\ contains(line, "/// details") /\ contains(next_line, "type:")
       THEN <<line>> \o clean_from(lines, next_idx)
       ELSE IF next_idx # 0 /\ contains(line, "type:") /\ contains(next_line, "open:")
       THEN <<line, next_line>> \o clean_from(lines, next_idx + 1)
       ELSE IF /\ next_idx # 0
               /\ (contains(line, "type:") \/ contains(line, "open:"))
               /\ ~startswith(strip(next_line), "open:")
               /\ ~startswith(strip(next_line), "///")
       THEN <<line, "", next_line>> \o clean_from(lines, next_idx + 1)
       ELSE IF next_idx # 0 /\ contains(line, "/// html") /\ contains(line, "li")
       THEN (IF ~IsBlank(lines[i + 1]) THEN <<line, "">> ELSE <<line>>)
              \o clean_from(lines, i + 1)
       ELSE IF next_idx # 0 /\ is_input /\ next_idx > i + 1
       THEN <<line, next_line>> \o clean_from(lines, next_idx + 1)
       ELSE <<line>> \o clean_from(lines, i + 1)

\* clean_buffer with the removal of the leading blank lines left out
clean_buffer_keep_leading(lines) == clean_from(lines, 1)

\* clean_buffer: drop the leading blank lines, then the loop
clean_buffer(lines) ==
  LET first == find_next_non_blank(lines, 1)
  IN IF first = 0 THEN <<>> ELSE clean_from(SubSeq(lines, first, Len(lines)), 1)

(***************************************************************************)
(* Block Reconstruction Engine: process_content.                          *)
(***************************************************************************)
\* the block type of the seed frame of the indent stack (Python's None);
\* no tag is the empty string, since a tag is \w+
None == ""

SeedStack == << <<0, None>> >>

\* the pre-pass on one line with the "preceded by space" test left out
split_trailing_any_sigil(line) ==
  LET stripped == strip(line)
      idx == rfind(line, "///")
  IN IF endswith(stripped, "///") /\ stripped # "///"
     THEN <<SubSeq(line, 1, idx - 1), From(line, idx)>>
     ELSE <<line>>

\* the pre-pass of process_content on one line: a trailing "///" that
\* follows whitespace is split off
split_trailing(line) ==
  LET stripped == strip(line)
      r == rstrip(line)
      idx == rfind(line, "///")
  IN IF endswith(stripped, "///") /\ stripped # "///" /\ Char(r, Len(r) - 3) \in WS
     THEN <<SubSeq(line, 1, idx - 1), From(line, idx)>>
     ELSE <<line>>

RECURSIVE split_lines(_)
split_lines(ls) ==
  IF Len(ls) = 0 THEN <<>> ELSE split_trailing(ls[1]) \o split_lines(Tail(ls))

\* file_marker_pattern.search(line): \*\*=== FILE: ([\w\.-]+) ===\*\*
\* group 1 of the leftmost match; "" when there is no match
file_marker_pattern(line) ==
  LET NameEnd(k) == SkipIn(line, k + 12, AnchorChars)
      hits == {k \in 1..Len(line) :
                 /\ MatchAt(line, "**=== FILE: ", k)
                 /\ NameEnd(k) > k + 12
                 /\ MatchAt(line, " ===**", NameEnd(k))}
  IN IF hits = {} THEN ""
     ELSE SubSeq(line, MinOf(hits) + 12, NameEnd(MinOf(hits)) - 1)

\* step 2 of the loop: undo the converter's escaping, drop a trailing
\* backslash (the modelled alphabet has no non-breaking space)
unescape(line) ==
  LET l1 == replace(line, "\\|", "|")
      l2 == replace(l1, "\\<", "<")
      l3 == replace(l2, "\\>", ">")
      l4 == replace(l3, "\\_", "_")
      l5 == replace(l4, "\\[", "[")
      l6 == replace(l5, "\\]", "]")
  IN IF endswith(l6, "\\") THEN SubSeq(l6, 1, Len(l6) - 1) ELSE l6

\* the indent of the content of a block opened at tag_indent
new_indent(tag_indent, block_type, rest_of_tag) ==
  IF block_type = "html"
  THEN IF contains(rest_of_tag, "ul.tasklist") THEN tag_indent + 2
       ELSE IF contains(rest_of_tag, "li") THEN tag_indent + 2
       ELSE tag_indent + 4
  ELSE IF block_type = "details" THEN tag_indent + 0
  ELSE tag_indent + 4

Top(stack) == stack[Len(stack)]

\* the "elif is_end" branch with the pop left out
pop_frame_never(indent_stack) == indent_stack

\* the "elif is_end" pop
pop_frame(indent_stack) ==
  IF Len(indent_stack) > 1 THEN SubSeq(indent_stack, 1, Len(indent_stack) - 1)
  ELSE indent_stack

\* indent_stack after an unescaped line that is no file marker
indent_after(indent_stack, line) ==
  LET is_start == block_start_pattern(line)
      tag_indent == Top(indent_stack)[1]
  IN IF is_start.ok
     THEN Append(indent_stack,
                 <<new_indent(tag_indent, is_start.block_type, is_start.rest_of_tag),
                   is_start.block_type>>)
     ELSE IF block_end_pattern(line) THEN pop_frame(indent_stack)
     ELSE indent_stack

\* the line appended to current_buffer for an unescaped line that is no
\* file marker
indented_line(indent_stack, line) ==
  LET current_indent == Top(indent_stack)[1]
      current_block_type == Top(indent_stack)[2]
      stripped == strip(line)
  IN IF block_start_pattern(line).ok THEN Spaces(current_indent) \o line
     ELSE IF block_end_pattern(line)
     THEN Spaces(Top(pop_frame(indent_stack))[1]) \o line
     ELSE IF current_block_type = "details"
     THEN IF startswith(stripped, "type:") \/ startswith(stripped, "open:")
          THEN Spaces(current_indent + 4) \o line
          ELSE Spaces(current_indent) \o line
     ELSE IF stripped = "" THEN ""
     ELSE Spaces(current_indent) \o lstrip(line)

\* re.sub(r'\n{3,}', '\n\n', file_content)
RECURSIVE collapse_from(_, _)
collapse_from(s, i) ==
  LET k == find(s, "\n\n\n", i)
  IN IF k = 0 THEN From(s, i)
     ELSE SubSeq(s, i, k - 1) \o "\n\n" \o collapse_from(s, SkipIn(s, k, {"\n"}))

collapse_blank_lines(file_content) == collapse_from(file_content, 1)

\* files_content[name] = value on a dict kept as a sequence of <<key, value>>
\* pairs in insertion order: an existing key keeps its place
Put(dict, name, value) ==
  IF \E k \in 1..Len(dict) : dict[k][1] = name
  THEN [k \in 1..Len(dict) |-> IF dict[k][1] = name THEN <<name, value>> ELSE dict[k]]
  ELSE Append(dict, <<name, value>>)

\* "Save previous buffer" / "Save last file"
save_buffer(st) ==
  IF st.current_file # None
  THEN Put(st.files_content, st.current_file, clean_buffer(st.current_buffer))
  ELSE st.files_content

\* one iteration of the main loop with the "Reset stack for new file" left
\* out
process_line_no_reset(st, raw) ==
  LET name == file_marker_pattern(raw)
      line == unescape(raw)
  IN IF name # ""
     THEN [current_file |-> name,
           current_buffer |-> <<>>,
           indent_stack |-> st.indent_stack,
           files_content |-> save_buffer(st)]
     ELSE IF st.current_file = None THEN st
     ELSE [st EXCEPT !.current_buffer = Append(@, indented_line(st.indent_stack, line)),
                     !.indent_stack = indent_after(@, line)]

\* one iteration of the main loop of process_content on the loop state
\* st = [current_file, current_buffer, indent_stack, files_content]
process_line(st, raw) ==
  LET name == file_marker_pattern(raw)
      line == unescape(raw)
  IN IF name # ""
     THEN [current_file |-> name,
           current_buffer |-> <<>>,
           indent_stack |-> SeedStack,
           files_content |-> save_buffer(st)]
     ELSE IF st.current_file = None THEN st
     ELSE [st EXCEPT !.current_buffer = Append(@, indented_line(st.indent_stack, line)),
                     !.indent_stack = indent_after(@, line)]

\* the loop state process_content starts from
LoopStart ==
  [current_file |-> None, current_buffer |-> <<>>,
   indent_stack |-> SeedStack, files_content |-> <<>>]

RECURSIVE process_loop(_, _, _)
process_loop(st, lines, i) ==
  IF i > Len(lines) THEN st ELSE process_loop(process_line(st, lines[i]), lines, i + 1)

\* process_content: the files_content it returns
process_content(content) ==
  save_buffer(process_loop(LoopStart, split_lines(split(content)), 1))

RECURSIVE unindent_loop(_, _, _)
unindent_loop(lines, i, stack_depth) ==
  IF i > Len(lines) THEN <<>>
  ELSE unindent_emit(stack_depth, lines[i])
         \o unindent_loop(lines, i + 1, unindent_depth(stack_depth, lines[i]))

\* unindent_blocks as a whole
unindent_blocks(content) == join(unindent_loop(split(content), 1, 0))

(***************************************************************************)
(* The external converter.  export hands it the linear document           *)
(* (pypandoc.convert_text) and import reads the text back                 *)
(* (pypandoc.convert_file); the round trip leaves the text as it is, but  *)
(* for the entity forms, which come back as the literal characters.       *)
(***************************************************************************)
external_converter(text) == replace(replace(text, "&lt;", "<"), "&gt;", ">")

(***************************************************************************)
(* State of the two programs.                                             *)
(***************************************************************************)
VARIABLES
  pc,             \* position of the running program (export main, import main)
  docs,           \* the files under docs/: unit name -> text
  original,       \* docs as they were before export started
  k,              \* export: index of filename in FILES; import: index in files_content
  content,        \* the content / file_content variable of the running main
  lines,          \* the lines being iterated (unindent_blocks, process_content)
  i,              \* index of the next line of lines
  new_lines,      \* unindent_blocks: the output lines
  stack_depth,    \* unindent_blocks: the nesting depth
  full_content,   \* export main: the per-unit segments
  docx,           \* the exported document, as text
  current_file,   \* process_content: the unit being filled
  current_buffer, \* process_content: its lines so far
  indent_stack,   \* process_content: frames <<indent_level, block_type>>
  files_content,  \* process_content: <<unit name, lines>> in insertion order
  writes          \* the unit files import has written, in order

vars == <<pc, docs, original, k, content, lines, i, new_lines, stack_depth,
          full_content, docx, current_file, current_buffer, indent_stack,
          files_content, writes>>

exportVars == <<new_lines, stack_depth, full_content>>

importVars == <<current_file, current_buffer, indent_stack, files_content>>

(***************************************************************************)
(* Bounds of the checked instances.                                       *)
(***************************************************************************)
\* number of units (a prefix of FILES) a run exports
MaxUnits == 2

\* number of lines of the first unit's source text
MaxLines == 3

\* the units of a run
Units == {FILES[n] : n \in 1..MaxUnits}

\* all sequences of 1..n members of menu
RECURSIVE SeqsUpTo(_, _)
SeqsUpTo(menu, n) ==
  IF n = 0 THEN {<<>>}
  ELSE LET shorter == SeqsUpTo(menu, n - 1)
       IN shorter \cup {Append(q, m) : q \in shorter, m \in menu}

\* source lines: block markers (one kept at its nested indentation),
\* content at two indentations, a metadata line and the blank line
LineMenu ==
  {"/// html | div", "    /// details | T", "///", "    type: info", "    body", "  x", ""}

\* the metadata lines of a collapsible section
MetaLines == {"type: info", "open: True"}

\* units made of one collapsible section, at the top level or inside a
\* container, whose first content line is a metadata line followed, with
\* or without a blank line between, by body text
DetailTexts ==
  {join(<<"/// details | T", "    " \o meta>> \o gap \o <<"body", "///">>) :
     meta \in MetaLines, gap \in {<<>>, <<"">>}}
  \cup
  {join(<<"/// html | div", "    /// details | T", "        " \o meta>> \o gap
          \o <<"    body", "    ///", "///">>) :
     meta \in MetaLines, gap \in {<<>>, <<"">>}}

\* the source texts of the first unit
SourceTexts ==
  {join(q) : q \in SeqsUpTo(LineMenu, MaxLines) \ {<<>>}} \cup DetailTexts

\* the source texts of the other units
OtherTexts == {"y"}

Idle ==
  /\ k = 1
  /\ content = ""
  /\ lines = <<>>
  /\ i = 1
  /\ new_lines = <<>>
  /\ stack_depth = 0
  /\ full_content = <<>>
  /\ current_file = None
  /\ current_buffer = <<>>
  /\ indent_stack = SeedStack
  /\ files_content = <<>>
  /\ writes = <<>>

Init ==
  /\ pc = "export"
  /\ \E first \in SourceTexts, other \in OtherTexts :
       docs = [n \in Units |-> IF n = FILES[1] THEN first ELSE other]
  /\ original = docs
  /\ docx = ""
  /\ Idle

(***************************************************************************)
(* export_docx.main                                                       *)
(***************************************************************************)
\* the Unit Boundary Marker main puts before a unit's segment
header(filename) ==
  "\n\n**=== FILE: " \o filename \o " ===** {#"
    \o lower(replace(filename, ".", "-")) \o "}\n\n"

\* for filename in FILES: read the file, 2. process_links,
\* 3. process_checkboxes, and enter unindent_blocks
ExportEncode ==
  /\ pc = "export"
  /\ content' = process_checkboxes(process_links(docs[FILES[k]], FILES[k]))
  /\ lines' = split(content')
  /\ i' = 1
  /\ new_lines' = <<>>
  /\ stack_depth' = 0
  /\ pc' = "unindent"
  /\ UNCHANGED <<docs, original, k, full_content, docx, writes>>
  /\ UNCHANGED importVars

\* one iteration of the loop of unindent_blocks
UnindentLine ==
  /\ pc = "unindent"
  /\ i <= Len(lines)
  /\ new_lines' = new_lines \o unindent_emit(stack_depth, lines[i])
  /\ stack_depth' = unindent_depth(stack_depth, lines[i])
  /\ i' = i + 1
  /\ UNCHANGED <<pc, docs, original, k, content, lines, full_content, docx, writes>>
  /\ UNCHANGED importVars

\* unindent_blocks returns; 5. escape_html, process_checkboxes again, and
\* full_content.append(header + content)
ExportAppend ==
  /\ pc = "unindent"
  /\ i > Len(lines)
  /\ content' = process_checkboxes(escape_html(join(new_lines)))
  /\ full_content' = Append(full_content, header(FILES[k]) \o content')
  /\ k' = k + 1
  /\ pc' = IF k < MaxUnits THEN "export" ELSE "combine"
  /\ UNCHANGED <<docs, original, lines, i, new_lines, stack_depth, docx, writes>>
  /\ UNCHANGED importVars

\* combined_markdown = "".join(full_content); pypandoc.convert_text
ExportConvert ==
  /\ pc = "combine"
  /\ docx' = concat(full_content)
  /\ pc' = "import"
  /\ UNCHANGED <<docs, original, k, content, lines, i, writes>>
  /\ UNCHANGED exportVars
  /\ UNCHANGED importVars

(***************************************************************************)
(* import_docx.main                                                       *)
(***************************************************************************)
\* pypandoc.convert_file, then process_content up to its main loop
ImportConvert ==
  /\ pc = "import"
  /\ content' = external_converter(docx)
  /\ lines' = split_lines(split(content'))
  /\ i' = 1
  /\ current_file' = None
  /\ current_buffer' = <<>>
  /\ indent_stack' = SeedStack
  /\ files_content' = <<>>
  /\ pc' = "process"
  /\ UNCHANGED <<docs, original, k, docx, writes>>
  /\ UNCHANGED exportVars

\* pypandoc.convert_file raises: main ends with the exception
ImportConvertFails ==
  /\ pc = "import"
  /\ pc' = "failed"
  /\ UNCHANGED <<docs, original, k, content, lines, i, docx, writes>>
  /\ UNCHANGED exportVars
  /\ UNCHANGED importVars

\* one iteration of the main loop of process_content
ProcessLine ==
  /\ pc = "process"
  /\ i <= Len(lines)
  /\ LET st == process_line([current_file |-> current_file,
                             current_buffer |-> current_buffer,
                             indent_stack |-> indent_stack,
                             files_content |-> files_content], lines[i])
     IN /\ current_file' = st.current_file
        /\ current_buffer' = st.current_buffer
        /\ indent_stack' = st.indent_stack
        /\ files_content' = st.files_content
  /\ i' = i + 1
  /\ UNCHANGED <<pc, docs, original, k, content, lines, docx, writes>>
  /\ UNCHANGED exportVars

\* "Save last file"; process_content returns and main's loop over
\* files_content.items() starts
ProcessEnd ==
  /\ pc = "process"
  /\ i > Len(lines)
  /\ files_content' = save_buffer([current_file |-> current_file,
                                   current_buffer |-> current_buffer,
                                   indent_stack |-> indent_stack,
                                   files_content |-> files_content])
  /\ k' = 1
  /\ pc' = IF Len(files_content') = 0 THEN "done" ELSE "restore"
  /\ UNCHANGED <<docs, original, content, lines, i, docx, writes>>
  /\ UNCHANGED <<current_file, current_buffer, indent_stack>>
  /\ UNCHANGED exportVars

\* the decoding without the collapse of newline runs
restore_file_uncollapsed(filename, unit_lines) ==
  join(restore_checkboxes(restore_attributes(restore_links(unit_lines, filename))))

\* what main makes of one unit's lines: restore_links, restore_attributes,
\* restore_checkboxes, join, and the collapse of newline runs
restore_file(filename, unit_lines) ==
  collapse_blank_lines(
    join(restore_checkboxes(restore_attributes(restore_links(unit_lines, filename)))))

\* the body of main's loop up to the write, for unit k of files_content
RestoreFile ==
  /\ pc = "restore"
  /\ content' = restore_file(files_content[k][1], files_content[k][2])
  /\ pc' = "write"
  /\ UNCHANGED <<docs, original, k, lines, i, docx, writes>>
  /\ UNCHANGED exportVars
  /\ UNCHANGED importVars

\* with open(filepath, 'w') as f: f.write(file_content)
WriteFile ==
  /\ pc = "write"
  /\ docs' = [n \in DOMAIN docs \cup {files_content[k][1]} |->
                IF n = files_content[k][1] THEN content ELSE docs[n]]
  /\ writes' = Append(writes, files_content[k][1])
  /\ k' = k + 1
  /\ pc' = IF k < Len(files_content) THEN "restore" ELSE "done"
  /\ UNCHANGED <<original, content, lines, i, docx>>
  /\ UNCHANGED exportVars
  /\ UNCHANGED importVars

\* open(filepath, 'w') raises: main ends with the exception
WriteFileFails ==
  /\ pc = "write"
  /\ pc' = "failed"
  /\ UNCHANGED <<docs, original, k, content, lines, i, docx, writes>>
  /\ UNCHANGED exportVars
  /\ UNCHANGED importVars

NextImport ==
  \/ ImportConvert
  \/ ImportConvertFails
  \/ ProcessLine
  \/ ProcessEnd
  \/ RestoreFile
  \/ WriteFile
  \/ WriteFileFails

Next ==
  \/ ExportEncode
  \/ UnindentLine
  \/ ExportAppend
  \/ ExportConvert
  \/ NextImport

\* export of the units followed by import of the exported document
Spec == Init /\ [][Next]_vars

(***************************************************************************)
(* Export and import of units with whitespace around markers and          *)
(* metadata.                                                              *)
(***************************************************************************)
\* number of lines of the first unit's source text
MaxFlatLines == 3

\* markers and metadata lines with leading and trailing whitespace, and a
\* content line
FlatLineMenu ==
  {"  /// html | div ", "/// details | T", "/// ", "    ///", "    open: True",
   "  type: info ", "body"}

FlatTexts == {join(q) : q \in SeqsUpTo(FlatLineMenu, MaxFlatLines) \ {<<>>}}

InitFlat ==
  /\ pc = "export"
  /\ \E first \in FlatTexts, other \in OtherTexts :
       docs = [n \in Units |-> IF n = FILES[1] THEN first ELSE other]
  /\ original = docs
  /\ docx = ""
  /\ Idle

SpecFlat == InitFlat /\ [][Next]_vars

(***************************************************************************)
(* Import of an arbitrary linear document.                                *)
(***************************************************************************)
\* number of lines of the linear document after its first boundary marker
MaxDocLines == 5

\* lines of a linear document: block markers, content, the blank line
DocLineMenu == {"/// html | div", "/// details | T", "///", "body", ""}

\* the linear documents the converter hands to import
LinearDocs ==
  {join(<<"**=== FILE: " \o FILES[1] \o " ===** {#introduction-md}">> \o q) :
     q \in SeqsUpTo(DocLineMenu, MaxDocLines)}

InitImport ==
  /\ pc = "import"
  /\ docs = [n \in Units |-> "old"]
  /\ original = docs
  /\ Idle
  /\ docx \in LinearDocs

\* import of a linear document
SpecImport == InitImport /\ [][NextImport]_vars

\* the boundary marker line of a unit, as export writes it
MarkerLine(filename) ==
  "**=== FILE: " \o filename \o " ===** {#" \o lower(replace(filename, ".", "-")) \o "}"

\* import starts on one of the given linear documents
ImportOf(documents) ==
  /\ pc = "import"
  /\ docs = [n \in Units |-> "old"]
  /\ original = docs
  /\ Idle
  /\ docx \in documents

(***************************************************************************)
(* Import of linear documents whose lines end in the end sigil.           *)
(***************************************************************************)
\* number of lines of such a document after its boundary marker
MaxSigilLines == 2

\* lines that end in the sigil after whitespace, after text, twice, alone
\* (bare, indented, with trailing whitespace), and lines without it
SigilLineMenu ==
  {"body ///", "body///", "a /// ///", "///", "  ///", "/// ", "body", ""}

SigilDocs ==
  {join(<<MarkerLine(FILES[1])>> \o q) : q \in SeqsUpTo(SigilLineMenu, MaxSigilLines)}

InitSigils == ImportOf(SigilDocs)

SpecSigils == InitSigils /\ [][NextImport]_vars

(***************************************************************************)
(* Import of linear documents made of block markers.                      *)
(***************************************************************************)
\* number of lines of such a document after its boundary marker
MaxBlockLines == 3

\* block starts of every kind the increments tell apart (list container,
\* list item, containers with other parameters, collapsible section,
\* another tag), the end marker and a content line
BlockLineMenu ==
  {"/// html | ul.tasklist", "/// html | li", "/// html | div",
   "/// html | div.link", "/// details | T", "/// note | N", "///", "body"}

BlockDocs ==
  {join(<<MarkerLine(FILES[1])>> \o q) : q \in SeqsUpTo(BlockLineMenu, MaxBlockLines)}

InitBlocks == ImportOf(BlockDocs)

SpecBlocks == InitBlocks /\ [][NextImport]_vars

(***************************************************************************)
(* Import of linear documents of nested blocks.                           *)
(***************************************************************************)
\* number of lines of such a document after its boundary marker
MaxNestLines == 5

\* a container, a collapsible section, the end marker and a content line,
\* all without leading whitespace
NestLineMenu == {"/// html | div", "/// details | T", "///", "body"}

NestDocs ==
  {join(<<MarkerLine(FILES[1])>> \o q) : q \in SeqsUpTo(NestLineMenu, MaxNestLines)}

InitNested == ImportOf(NestDocs)

SpecNested == InitNested /\ [][NextImport]_vars

(***************************************************************************)
(* Import of linear documents of two unit segments.                       *)
(***************************************************************************)
\* number of lines of each segment after its boundary marker
MaxSegmentLines == 2

SegmentLineMenu == {"/// html | div", "///", "body"}

\* the unit the second marker names: another registered unit, the unit of
\* the first marker again, or a name outside the registry
SecondNames == {FILES[2], FILES[1], "notes.md"}

SegmentDocs ==
  {join(<<MarkerLine(FILES[1])>> \o q1 \o <<MarkerLine(second)>> \o q2) :
     q1 \in SeqsUpTo(SegmentLineMenu, MaxSegmentLines),
     q2 \in SeqsUpTo(SegmentLineMenu, MaxSegmentLines),
     second \in SecondNames}

InitSegments == ImportOf(SegmentDocs)

SpecSegments == InitSegments /\ [][NextImport]_vars

(***************************************************************************)
(* Import of linear documents made of the lines clean_buffer re-merges.   *)
(***************************************************************************)
\* number of lines of such a document after its boundary marker
MaxCleanLines == 3

\* a collapsible-section start, both metadata lines, a list-item start, a
\* control token, a content line and the blank line
CleanLineMenu ==
  {"/// details | T", "type: info", "open: True", "/// html | li", "[cb-1]",
   "body", ""}

CleanDocs ==
  {join(<<MarkerLine(FILES[1])>> \o q) : q \in SeqsUpTo(CleanLineMenu, MaxCleanLines)}

InitClean == ImportOf(CleanDocs)

SpecClean == InitClean /\ [][NextImport]_vars

(***************************************************************************)
(* The link codec on one link: process_links, then restore_links, then    *)
(* restore_attributes, as the two mains apply them to a unit.             *)
(***************************************************************************)
\* number of parts an anchor string is made of
MaxAnchorParts == 2

AnchorParts == {"x", ":", "validity_md", "validity_md__", "introduction_md__"}

\* anchor strings; "" is the link without anchor
Anchors == {concat(q) : q \in SeqsUpTo(AnchorParts, MaxAnchorParts)}

\* link targets: registered units, an unknown unit, an external address,
\* and "" for the same-unit form (#anchor)
Targets == {FILES[1], FILES[2], FILES[6], "other.md", "http://example.org/page", ""}

Annotations == {"", "{ #y }", " {#y}"}

LinkTexts == {"Go", "see 1"}

\* the source text of a link
RenderLink(text, target, anchor, attr) ==
  "[" \o text \o "](" \o target \o (IF anchor = "" THEN "" ELSE "#" \o anchor)
    \o ")" \o attr

InitLinks ==
  /\ pc = "link_source"
  /\ docs = [n \in Units |-> ""]
  /\ Idle
  /\ \E text \in LinkTexts, target \in Targets, anchor \in Anchors,
        attr \in Annotations, unit \in Units :
       /\ target \o anchor # ""
       /\ original = [text |-> text, target |-> target, anchor |-> anchor,
                      attr |-> attr, unit |-> unit]
       /\ docx = RenderLink(text, target, anchor, attr)

codecFrame ==
  UNCHANGED <<docs, original, k, i, docx, writes, current_file, current_buffer,
              indent_stack, files_content, new_lines, stack_depth, full_content>>

\* export main, step 2, on the unit that holds the link
EncodeLink ==
  /\ pc = "link_source"
  /\ content' = process_links(docx, original.unit)
  /\ lines' = <<content'>>
  /\ pc' = "link_encoded"
  /\ codecFrame

\* import main: restore_links on the unit's lines
DecodeLink ==
  /\ pc = "link_encoded"
  /\ lines' = restore_links(split(content), original.unit)
  /\ content' = join(lines')
  /\ pc' = "link_decoded"
  /\ codecFrame

\* import main: restore_attributes on the unit's lines
DecodeAttributes ==
  /\ pc = "link_decoded"
  /\ lines' = restore_attributes(lines)
  /\ content' = join(lines')
  /\ pc' = "link_restored"
  /\ codecFrame

NextLinks == EncodeLink \/ DecodeLink \/ DecodeAttributes

SpecLinks == InitLinks /\ [][NextLinks]_vars

(***************************************************************************)
(* The inline control codec on one control: process_checkboxes, then      *)
(* restore_checkboxes, twice over.                                        *)
(***************************************************************************)
\* number of parts the key of a control is made of, after its prefix
MaxKeyParts == 2

KeyParts == {"1", "-2", "_a"}

Keys == {concat(q) : q \in SeqsUpTo(KeyParts, MaxKeyParts) \ {<<>>}}

\* attributes before and after the key attribute, and the ways to close
AttrsBefore ==
  {"", " type='checkbox'", " type=\"checkbox\" checked", " class=\"cb-sa\" checked"}

AttrsAfter ==
  {"", " checked", " class=\"other\"", " class=\"cb-sa\" onchange=\"toggleCheckboxes(event)\""}

Closings == {">", "/>", " />"}

\* text around the control on its line
Surroundings == {<<"", "">>, <<"- ", " I agree">>}

InitControls ==
  /\ pc = "control_source"
  /\ docs = [n \in Units |-> ""]
  /\ Idle
  /\ \E kind \in {"id", "name"}, key \in Keys, before \in AttrsBefore,
        after \in AttrsAfter, closing \in Closings, around \in Surroundings :
       LET full_key == (IF kind = "id" THEN "cb-" ELSE "pledge_") \o key
       IN /\ original = [kind |-> kind, key |-> full_key, around |-> around]
          /\ docx = around[1] \o "<input" \o before \o " " \o kind \o "=\""
                      \o full_key \o "\"" \o after \o closing \o around[2]

\* export main, step 3
EncodeControl ==
  /\ \/ pc = "control_source" /\ pc' = "control_encoded"
        /\ content' = process_checkboxes(docx)
     \/ pc = "control_decoded" /\ pc' = "control_encoded_again"
        /\ content' = process_checkboxes(content)
  /\ lines' = split(content')
  /\ codecFrame

\* import main: restore_checkboxes on the unit's lines
DecodeControl ==
  /\ \/ pc = "control_encoded" /\ pc' = "control_decoded"
     \/ pc = "control_encoded_again" /\ pc' = "control_decoded_again"
  /\ lines' = restore_checkboxes(lines)
  /\ content' = join(lines')
  /\ codecFrame

NextControls == EncodeControl \/ DecodeControl

SpecControls == InitControls /\ [][NextControls]_vars

(***************************************************************************)
(* Claims about the link codec (checked under SpecLinks).                 *)
(***************************************************************************)
Registered(target) == \E n \in 1..Len(FILES) : FILES[n] = target

\* the link is a cross-unit link with an anchor: target b registered, b
\* other than the unit a that holds it
CrossUnit == Registered(original.target) /\ original.target # original.unit
               /\ original.anchor # ""

\* the link is a same-unit link with an anchor, written with the unit name
SameUnit == original.target = original.unit /\ original.anchor # ""

\* the anchor is made of the characters restore_links reads as an anchor
PlainAnchor(anchor) == CharsOf(anchor) \subseteq AnchorChars

\* the anchor is, or starts with, the encoded name of a registered unit
\* (followed by the double separator)
NamesUnit(anchor) ==
  \E n \in 1..Len(FILES) :
     \/ anchor = replace(FILES[n], ".", "_")
     \/ startswith(anchor, replace(FILES[n], ".", "_") \o "__")

\* C2: a cross-unit link [T](b#s) of unit a, encoded by process_links and
\* decoded by restore_links for unit a, is [T](b#s) again, for every anchor
\* string s.
C2_CrossUnitRoundTrip ==
  (pc = "link_decoded" /\ CrossUnit /\ original.attr = "")
    => content = docx

\* C2, on the anchors made of word characters, "." and "-" only
C2_PlainAnchorRoundTrip ==
  (pc = "link_decoded" /\ CrossUnit /\ original.attr = ""
     /\ PlainAnchor(original.anchor))
    => content = docx

\* C3: a same-unit link [T](a#s) of unit a, encoded and decoded for unit a,
\* is the same-unit form [T](#s), whatever s is.
C3_SameUnitRoundTrip ==
  (pc = "link_decoded" /\ SameUnit /\ original.attr = "")
    => content = "[" \o original.text \o "](#" \o original.anchor \o ")"

\* C3, on the anchors that do not name a unit
C3_NoUnitNameRoundTrip ==
  (pc = "link_decoded" /\ SameUnit /\ original.attr = ""
     /\ ~NamesUnit(original.anchor))
    => content = "[" \o original.text \o "](#" \o original.anchor \o ")"

\* C4: an annotated cross-unit link [T](b#x){ #y } of unit a is exported as
\* the bare link [T { #y }](#b_md__x) and is [T](b#x){ #y } again after
\* restore_links and restore_attributes.
C4_AnnotatedRoundTrip ==
  (CrossUnit /\ original.attr = "{ #y }") =>
    /\ pc = "link_encoded" =>
         content = "[" \o original.text \o " { #y }](#"
                     \o replace(original.target, ".", "_") \o "__"
                     \o original.anchor \o ")"
    /\ pc = "link_restored" => content = docx

\* C4, on the anchors made of word characters, "." and "-" only
C4_PlainAnchorAnnotated ==
  PlainAnchor(original.anchor) => C4_AnnotatedRoundTrip

\* the link's target is no registered unit: an external address or an
\* unknown unit name
Unregistered == original.target # "" /\ ~Registered(original.target)

\* C10 (as stated): process_links leaves every link whose target is not a
\* registered unit byte-identical, and restore_links leaves every anchor
\* reference that names no unit byte-identical.
C10_PassThrough ==
  /\ (pc = "link_encoded" /\ Unregistered) => content = docx
  /\ (pc = "link_decoded" /\ original.target = "" /\ ~NamesUnit(original.anchor))
       => content = docx

\* C10 (amended): process_links leaves a link to an unregistered target
\* byte-identical when it has no brace annotation; with an annotation the
\* target is kept and the annotation moves into the visible text.
\* restore_links leaves every anchor reference that names no unit
\* byte-identical.
C10_PassThroughUnannotated ==
  /\ (pc = "link_encoded" /\ Unregistered /\ original.attr = "")
       => content = docx
  /\ (pc = "link_encoded" /\ Unregistered /\ original.attr # "")
       => content = "[" \o original.text \o " " \o strip(original.attr) \o "]("
                      \o original.target
                      \o (IF original.anchor = "" THEN "" ELSE "#" \o original.anchor)
                      \o ")"
  /\ (pc = "link_decoded" /\ original.target = "" /\ original.attr = ""
        /\ ~NamesUnit(original.anchor))
       => content = docx

\* an unannotated link to an external address has been encoded, and an
\* anchor reference that names no unit has been decoded
C10_Witness ==
  \/ pc = "link_encoded" /\ original.target = "http://example.org/page"
       /\ original.attr = "" /\ content = docx
  \/ pc = "link_decoded" /\ original.target = "" /\ original.anchor = "x"
       /\ original.attr = "" /\ content = "[Go](#x)"

(***************************************************************************)
(* Claims about the inline control codec (checked under SpecControls).    *)
(***************************************************************************)
\* the element the control's key must come back in: checked, the fixed
\* class marker of its kind and, for an identity-keyed control, the hook
ExpectedControl ==
  IF original.kind = "id"
  THEN "<input type='checkbox' checked id=\"" \o original.key
         \o "\" class=\"cb-sa\" onchange=\"toggleCheckboxes(event)\"/>"
  ELSE "<input type='checkbox' checked name=\"" \o original.key
         \o "\" class=\"data-input\" />"

\* C5: for every identity-keyed and every name-keyed control, whatever the
\* order of its attributes, its other attributes and its closing,
\* restore_checkboxes(process_checkboxes(control)) is the canonical element
\* of the control's key, the encoded token holds the key alone, and a second
\* decode-after-encode gives what the first gave.
C5_Canonicalization ==
  /\ pc \in {"control_encoded", "control_encoded_again"} =>
       content = original.around[1] \o "[" \o original.key \o "]"
                   \o original.around[2]
  /\ pc \in {"control_decoded", "control_decoded_again"} =>
       content = original.around[1] \o ExpectedControl \o original.around[2]

\* a name-keyed control written in another attribute order, with another
\* class and inside a line of text, has been through the codec twice
C5_Witness ==
  /\ pc = "control_decoded_again"
  /\ original.kind = "name"
  /\ original.around = <<"- ", " I agree">>
  /\ docx = "- <input class=\"cb-sa\" checked name=\"pledge_1_a\" class=\"other\"> I agree"
  /\ content = "- <input type='checkbox' checked name=\"pledge_1_a\" class=\"data-input\" /> I agree"

(***************************************************************************)
(* Claims about export followed by import (checked under Spec).           *)
(***************************************************************************)
\* the nesting depth after the first n lines of ls, an end marker met at
\* depth 0 counting as if it had been at depth 0
RECURSIVE ClampedDepth(_, _)
ClampedDepth(ls, n) ==
  IF n = 0 THEN 0
  ELSE LET d == ClampedDepth(ls, n - 1)
       IN IF block_start_pattern(ls[n]).ok THEN d + 1
          ELSE IF block_end_pattern(ls[n]) THEN (IF d = 0 THEN 0 ELSE d - 1)
          ELSE d

\* every end marker of the text closes a block, and every block is closed
WellNested(text) ==
  LET ls == split(text)
  IN /\ \A n \in 1..Len(ls) :
          block_end_pattern(ls[n]) /\ ~block_start_pattern(ls[n]).ok
            => ClampedDepth(ls, n - 1) > 0
     /\ ClampedDepth(ls, Len(ls)) = 0

IsContent(line) == line # ""

\* the lines of a text that are not blank, trailing whitespace trimmed:
\* what is left of a text when blank lines and trailing spaces do not count
ContentLines(text) ==
  LET ls == split(text)
  IN SelectSeq([n \in 1..Len(ls) |-> rstrip(ls[n])], IsContent)

\* C1: for units whose blocks are well nested, export followed by import
\* gives back every unit equal to the original up to blank lines and
\* trailing spaces: every content line with its leading indentation, every
\* block marker, link and control is the same.
C1_RoundTripIdentity ==
  pc = "done" =>
    \A u \in Units :
       (\A v \in Units : WellNested(original[v]))
         => ContentLines(docs[u]) = ContentLines(original[u])

\* C6: whatever the lines, unmatched end markers included, the depth of
\* unindent_blocks is never below 0 and is the depth counted with unmatched
\* end markers taken at depth 0; the indent stack of process_content is never
\* empty and holds no negative indent; a block start met with only the seed
\* frame on the stack is emitted at indent 0.
C6_DepthClamped ==
  /\ stack_depth >= 0
  /\ pc = "unindent" => stack_depth = ClampedDepth(lines, i - 1)
  /\ Len(indent_stack) >= 1
  /\ \A f \in 1..Len(indent_stack) : indent_stack[f][1] >= 0
  /\ (pc = "process" /\ i > 1 /\ block_start_pattern(lines[i - 1]).ok
        /\ Len(indent_stack) = 2)
       => current_buffer[Len(current_buffer)] = lines[i - 1]

\* a unit that starts with an unmatched end marker followed by a block
\* start has been exported, and import has just emitted that block start at
\* indent 0 with the stack one frame above the seed
C6_Witness ==
  /\ pc = "process"
  /\ startswith(original[FILES[1]], "///\n/// html | div")
  /\ i > 1
  /\ lines[i - 1] = "/// html | div"
  /\ Len(indent_stack) = 2
  /\ indent_stack[2] = <<4, "html">>
  /\ current_buffer = <<"", "///", "", "/// html | div">>

\* unit j of files_content has been through link, attribute and control
\* decoding and the blank-line collapse
Decoded(j) == j < k \/ (j = k /\ pc \in {"write", "failed"})

\* C9 (as stated): no unit file is written before the reconstruction of
\* every unit (splitting, re-indentation, clean, link, attribute and control
\* decoding, blank-line collapse) has completed.
C9_AllOrNothing ==
  Len(writes) > 0 => \A j \in 1..Len(files_content) : Decoded(j)

\* C9 (amended): no unit file is written before process_content (splitting,
\* re-indentation, clean) has completed for every unit; the units are then
\* written one by one in the order of files_content, each after its own
\* decoding and blank-line collapse, so when unit j is being decoded or
\* written, or its write fails, exactly the j - 1 units before it have been
\* written, and none when the conversion fails; no written text holds three
\* newlines in a row.
C9_WrittenAfterOwnDecoding ==
  /\ pc \in {"export", "unindent", "combine", "import", "process"}
       => writes = <<>>
  /\ Len(writes) > 0 => i > Len(lines)
  /\ pc \in {"restore", "write"} => Len(writes) = k - 1
  /\ pc = "failed" =>
       Len(writes) = (IF files_content = <<>> THEN 0 ELSE k - 1)
  /\ pc = "done" => Len(writes) = Len(files_content)
  /\ \A j \in 1..Len(writes) :
        /\ writes[j] = files_content[j][1]
        /\ ~contains(docs[writes[j]], "\n\n\n")

\* the first unit has been written while the second is still to be decoded
C9_Witness ==
  /\ pc = "restore"
  /\ k = 2
  /\ writes = <<FILES[1]>>
  /\ Len(files_content) = 2
  /\ docs[FILES[1]] = restore_file(FILES[1], files_content[1][2])

\* the number of spaces a line starts with
Indent(line) == SkipIn(line, 1, {" "}) - 1

IsDetailsStart(line) == contains(line, "/// details")

\* the index of the start marker of the collapsible section of ls
DetailsAt(ls) == CHOOSE n \in 1..Len(ls) : IsDetailsStart(ls[n])

\* in the text written for the unit, the line after the section's start
\* marker is the metadata line of the source, 4 columns deeper than the
\* marker, followed by one blank line and the body text
MetadataFirst(source, written) ==
  LET src == split(source)
      out == split(written)
      s == DetailsAt(out)
  IN /\ \E n \in 1..Len(out) : IsDetailsStart(out[n])
     /\ Len(out) >= s + 3
     /\ out[s + 1] = Spaces(Indent(out[s]) + 4) \o strip(src[DetailsAt(src) + 1])
     /\ strip(out[s + 2]) = ""
     /\ strip(out[s + 3]) = "body"

\* C8: for a collapsible section whose first content line is a metadata
\* line (type: or open:) followed by body text, after export and import the
\* metadata line is the line right after the start marker, 4 columns deeper
\* than it, and exactly one blank line separates it from the body text.
C8_MetadataFirst ==
  (pc = "done" /\ original[FILES[1]] \in DetailTexts)
    => MetadataFirst(original[FILES[1]], docs[FILES[1]])

\* C8, for the sections whose metadata line has the key type:
C8_TypeKeyFirst ==
  (pc = "done" /\ original[FILES[1]] \in DetailTexts
     /\ contains(original[FILES[1]], "type:"))
    => MetadataFirst(original[FILES[1]], docs[FILES[1]])

(***************************************************************************)
(* Claims about the import of a linear document (checked under            *)
(* SpecImport).                                                           *)
(***************************************************************************)
\* lines n, n + 1 and n + 2 of ls are blank: empty after trimming
BlankRunAt(ls, n) == IsBlank(ls[n]) /\ IsBlank(ls[n + 1]) /\ IsBlank(ls[n + 2])

\* C7: no unit written by import holds 3 or more consecutive blank lines,
\* a line being blank when it is empty after trimming.
C7_NoBlankRuns ==
  \A j \in 1..Len(writes) :
     LET ls == split(docs[writes[j]])
     IN \A n \in 1..(Len(ls) - 2) : ~BlankRunAt(ls, n)

\* C7, for the lines that are empty without trimming
C7_NoEmptyRuns ==
  \A j \in 1..Len(writes) :
     LET ls == split(docs[writes[j]])
     IN \A n \in 1..(Len(ls) - 2) :
           ~(ls[n] = "" /\ ls[n + 1] = "" /\ ls[n + 2] = "")

(***************************************************************************)
(* Claims about the pre-pass of process_content (checked under           *)
(* SpecSigils).                                                           *)
(***************************************************************************)
\* the line, trailing whitespace ignored, ends in the sigil
EndsInSigil(line) == endswith(strip(line), "///")

\* the line consists of the sigil alone, surrounding whitespace ignored
SigilAlone(line) == strip(line) = "///"

\* C11 (as stated): after the pre-pass every line that ends in the sigil
\* consists of the sigil alone: each line ending in the sigil and holding
\* more than the sigil has been split in two at its last sigil.
C11_EverySigilSplit ==
  pc = "process" => \A m \in 1..Len(lines) : EndsInSigil(lines[m]) => SigilAlone(lines[m])

\* the trailing sigil of the line stands right after a whitespace character
SigilAfterSpace(line) ==
  LET t == rstrip(line)
  IN EndsInSigil(line) /\ ~SigilAlone(line) /\ Len(t) > 3 /\ Char(t, Len(t) - 3) \in WS

\* the number of lines before line n of src that the pre-pass splits
SplitsBefore(src, n) == Cardinality({j \in 1..(n - 1) : SigilAfterSpace(src[j])})

\* C11 (amended): the pre-pass splits in two, at its last sigil, every line
\* that ends in the sigil right after a whitespace character and does not
\* consist of the sigil alone: the first part is the text before the last
\* sigil, the second is the sigil alone; every other line, a line ending in
\* a sigil that follows text directly included, is left unchanged; the
\* order of the lines is kept and no character is lost.
C11_SigilAfterSpaceSplit ==
  pc = "process" =>
    LET src == split(content)
    IN /\ Len(lines) = Len(src) + SplitsBefore(src, Len(src) + 1)
       /\ \A n \in 1..Len(src) :
            LET m == n + SplitsBefore(src, n)
            IN IF SigilAfterSpace(src[n])
               THEN /\ lines[m] \o lines[m + 1] = src[n]
                    /\ SigilAlone(lines[m + 1])
                    /\ lstrip(lines[m + 1]) = lines[m + 1]
               ELSE lines[m] = src[n]

\* a line ending in the sigil after a space has been split, and a line
\* ending in the sigil right after text has been left whole
C11_Witness ==
  /\ pc = "process"
  /\ lines = <<MarkerLine(FILES[1]), "body ", "///", "body///">>

(***************************************************************************)
(* Claims about the re-indentation of process_content (checked under      *)
(* SpecBlocks).                                                           *)
(***************************************************************************)
\* the parameter of a block start: what follows the "|" of the marker
ParamOf(line) ==
  LET bar == find(line, "|", 1)
  IN IF bar = 0 THEN "" ELSE strip(From(line, bar + 1))

\* the increment the block start calls for: by its tag, and by whether its
\* parameter is the list-container or the list-item marker
Increment(line) ==
  LET tag == block_start_pattern(line).block_type
  IN IF tag = "html"
     THEN IF ParamOf(line) = "ul.tasklist" THEN 2
          ELSE IF ParamOf(line) = "li" THEN 2
          ELSE 4
     ELSE IF tag = "details" THEN 0
     ELSE 4

\* process_content has just handled the block start lines[i - 1]
StartHandled ==
  /\ pc = "process"
  /\ i > 1
  /\ file_marker_pattern(lines[i - 1]) = ""
  /\ block_start_pattern(lines[i - 1]).ok
  /\ Len(indent_stack) >= 2

\* the start was emitted at the indent c of the frame below the new one,
\* and the new frame's indent is c plus the increment of the start
IncrementApplied ==
  LET c == indent_stack[Len(indent_stack) - 1][1]
  IN /\ current_buffer[Len(current_buffer)] = Spaces(c) \o lines[i - 1]
     /\ indent_stack[Len(indent_stack)][1] = c + Increment(lines[i - 1])

\* C12: a block start seen at current indent c is emitted at indent c and
\* pushes a frame of indent c+2 for a container marked list container or
\* list item, c+4 for a container with any other parameter, c+0 for a
\* collapsible section and c+4 for any other tag.
C12_IndentIncrements == StartHandled => IncrementApplied

\* C12, for the block starts whose parameter is a list marker or holds no
\* "li" at all
C12_IncrementsWithoutLiInside ==
  (StartHandled /\ (ParamOf(lines[i - 1]) \in {"ul.tasklist", "li"}
                      \/ ~contains(ParamOf(lines[i - 1]), "li")))
    => IncrementApplied

(***************************************************************************)
(* Claims about block ends on import (checked under SpecNested).          *)
(***************************************************************************)
IsStart(line) == block_start_pattern(line).ok

IsEnd(line) == block_end_pattern(line) /\ ~block_start_pattern(line).ok

\* every end marker among the first n lines of buf closes a block
WellNestedUpTo(buf, n) ==
  \A e \in 1..n : IsEnd(buf[e]) => ClampedDepth(buf, e - 1) > 0

\* the start marker that the end marker at line e of buf closes
MatchingStart(buf, e) ==
  MaxOf({b \in 1..(e - 1) :
           IsStart(buf[b]) /\ ClampedDepth(buf, b - 1) = ClampedDepth(buf, e)})

\* C13: in a unit segment whose markers arrive without leading whitespace
\* and are well nested, every block-end line is emitted at the indentation
\* of its matching block-start line, and once every block is closed the
\* indent stack is the single seed frame (0, none) again.
C13_EndAtStartIndent ==
  (pc = "process" /\ WellNestedUpTo(current_buffer, Len(current_buffer))) =>
    /\ \A e \in 1..Len(current_buffer) :
          IsEnd(current_buffer[e]) =>
            Indent(current_buffer[e])
              = Indent(current_buffer[MatchingStart(current_buffer, e)])
    /\ Len(indent_stack) = 1 + ClampedDepth(current_buffer, Len(current_buffer))
    /\ ClampedDepth(current_buffer, Len(current_buffer)) = 0
         => indent_stack = SeedStack

\* a collapsible section inside a container has been closed, then the
\* container: both ends stand at the indent of their starts and the stack
\* is the seed frame again
C13_Witness ==
  /\ pc = "process"
  /\ current_buffer = <<"/// html | div", "    /// details | T", "    body",
                        "    ///", "///">>
  /\ indent_stack = SeedStack

(***************************************************************************)
(* Claims about the flattening of unindent_blocks (checked under          *)
(* SpecFlat).                                                             *)
(***************************************************************************)
\* the trimmed text of the line starts with a metadata key prefix
IsMetadata(line) ==
  startswith(strip(line), "type:") \/ startswith(strip(line), "open:")

\* line n of out is followed by a blank line
SeparatorAfter(out, n) == n < Len(out) /\ out[n + 1] = ""

\* C14: in the output of unindent_blocks every block-start line and every
\* block-end line stands without leading or trailing whitespace and is
\* immediately followed by a blank line, and every content line whose
\* trimmed text starts with type: or open: is immediately followed by a
\* blank line.
C14_MarkersIsolated ==
  pc = "unindent" =>
    \A n \in 1..Len(new_lines) :
       /\ (IsStart(new_lines[n]) \/ IsEnd(new_lines[n])) =>
             /\ strip(new_lines[n]) = new_lines[n]
             /\ SeparatorAfter(new_lines, n)
       /\ IsMetadata(new_lines[n]) => SeparatorAfter(new_lines, n)

\* an indented container start with trailing whitespace, a metadata line
\* and an end marker with trailing whitespace have been flattened
C14_Witness ==
  /\ pc = "unindent"
  /\ lines = <<"  /// html | div ", "    open: True", "/// ">>
  /\ new_lines = <<"/// html | div", "", "open: True", "", "///", "">>

(***************************************************************************)
(* Claims about the units of a linear document (checked under             *)
(* SpecSegments).                                                         *)
(***************************************************************************)
IsMarker(line) == file_marker_pattern(line) # ""

\* the lines of ls from the marker at line m up to the next marker
SegmentAt(ls, m) ==
  LET later == {n \in (m + 1)..Len(ls) : IsMarker(ls[n])}
  IN SubSeq(ls, m, IF later = {} THEN Len(ls) ELSE MinOf(later) - 1)

\* the marker at line m is the last one of ls that names its unit
LastOfItsUnit(ls, m) ==
  \A n \in (m + 1)..Len(ls) : file_marker_pattern(ls[n]) # file_marker_pattern(ls[m])

\* the lines files_content holds for the unit
BufferOf(dict, name) == dict[CHOOSE j \in 1..Len(dict) : dict[j][1] = name][2]

\* C15: a boundary marker line starts a new unit, is emitted into no
\* buffer and resets the indent stack to the single frame (0, none); the
\* reconstructed lines of a unit are those its own segment gives when
\* processed alone, whatever the segment before it left open.
C15_UnitIsolation ==
  /\ (pc = "process" /\ i > 1 /\ IsMarker(lines[i - 1])) =>
        /\ current_file = file_marker_pattern(lines[i - 1])
        /\ current_buffer = <<>>
        /\ indent_stack = << <<0, "">> >>
  /\ \A n \in 1..Len(current_buffer) : ~IsMarker(current_buffer[n])
  /\ \A j \in 1..Len(files_content) :
        \A n \in 1..Len(files_content[j][2]) : ~IsMarker(files_content[j][2][n])
  /\ pc = "restore" =>
        LET src == split(docx)
        IN \A m \in 1..Len(src) :
              (IsMarker(src[m]) /\ LastOfItsUnit(src, m)) =>
                 BufferOf(files_content, file_marker_pattern(src[m]))
                   = process_content(join(SegmentAt(src, m)))[1][2]

\* the first unit left a container open and the second unit's content
\* line stands at indent 0
C15_Witness ==
  /\ pc = "restore"
  /\ docx = join(<<MarkerLine(FILES[1]), "/// html | div", "body",
                   MarkerLine(FILES[2]), "body">>)
  /\ files_content = << <<FILES[1], <<"/// html | div", "    body">> >>,
                        <<FILES[2], <<"body">> >> >>

\* the non-blank lines of the segment at line m, trimmed, marker excluded
SegmentContent(ls, m) ==
  LET seg == SegmentAt(ls, m)
  IN {strip(seg[n]) : n \in 2..Len(seg)} \ {""}

\* the lines of the unit file, trimmed
WrittenContent(name) == {strip(l) : l \in {split(docs[name])[n] : n \in 1..Len(split(docs[name]))}}

\* C16: the units import writes are units of the registry, each is written
\* exactly once, and with its full content: every segment of the document
\* that names the unit has its lines in the unit's file.
C16_RegisteredUnitsOnce ==
  pc = "done" =>
    /\ \A j \in 1..Len(writes) : Registered(writes[j])
    /\ \A j1, j2 \in 1..Len(writes) : writes[j1] = writes[j2] => j1 = j2
    /\ LET src == split(docx)
       IN \A m \in 1..Len(src) :
             IsMarker(src[m]) =>
               SegmentContent(src, m) \subseteq WrittenContent(file_marker_pattern(src[m]))

\* C16, for the documents whose markers name registered units, each once
C16_DistinctRegisteredUnits ==
  (pc = "done" /\ \A m \in 1..Len(split(docx)) :
                     IsMarker(split(docx)[m]) =>
                       /\ Registered(file_marker_pattern(split(docx)[m]))
                       /\ LastOfItsUnit(split(docx), m))
    => C16_RegisteredUnitsOnce

(***************************************************************************)
(* Claims about clean_buffer (checked under SpecClean).                   *)
(***************************************************************************)
IsNonBlank(line) == ~IsBlank(line)

\* the lines of ls that are not blank, in their order
NonBlankLines(ls) == SelectSeq(ls, IsNonBlank)

\* C17: the non-blank lines clean_buffer returns are the non-blank lines
\* it was given, the same lines in the same order, none dropped,
\* duplicated or modified, and what it returns never starts with a blank
\* line.
C17_OnlyBlanksTouched ==
  (pc \in {"restore", "write", "done"} /\ files_content # <<>>) =>
    LET cleaned == BufferOf(files_content, current_file)
    IN /\ NonBlankLines(cleaned) = NonBlankLines(current_buffer)
       /\ cleaned # <<>> => ~IsBlank(cleaned[1])

\* clean_buffer has dropped the blank line between a collapsible-section
\* start and its metadata line
C17_Witness ==
  /\ pc = "restore"
  /\ current_buffer = <<"/// details | T", "", "    type: info">>
  /\ files_content = << <<FILES[1], <<"/// details | T", "    type: info">> >> >>

====
